---- MODULE Spec2Model ----
(***************************************************************************)
(* Model of src/evaluation/dbpedia/evaluate.py: the type hierarchy with    *)
(* its lazily cached paths, the path operations (distance, most specific   *)
(* types, expansion), the linear gain model, DCG/NDCG and the per-question *)
(* scoring loop of evaluate.                                               *)
(*                                                                         *)
(* Numbers.  Every gain the program produces is 1 - d/max_depth or 0 or 1, *)
(* a multiple of 1/max_depth; a gain g is represented by the integer       *)
(* g * max_depth.  The discount 1/log2(i+2) is irrational; it is held in   *)
(* fixed point, in hundredths (DiscountTable).  A DCG is therefore an      *)
(* integer in units of 1/(100 * max_depth), and a quotient of two numbers  *)
(* (an NDCG, a mean) is the fraction [num, den] in lowest terms, so that   *)
(* two quotients are equal exactly when their values are.  math.inf is     *)
(* Inf, a value larger than every finite distance.                         *)
(***************************************************************************)
EXTENDS Integers, Sequences, FiniteSets, TLC

VARIABLES rows, type_hierarchy, max_depth, op, args, result,
          todo, gold, answer, question_gains, question_ideal_gains,
          accuracy, ndcg_5, ndcg_10,
          pc, raised, report

vars == <<rows, type_hierarchy, max_depth, op, args, result,
          todo, gold, answer, question_gains, question_ideal_gains,
          accuracy, ndcg_5, ndcg_10,
          pc, raised, report>>

libVars == <<rows, max_depth, op, args, result>>
evalVars == <<todo, gold, answer, question_gains, question_ideal_gains,
              accuracy, ndcg_5, ndcg_10, pc, raised, report>>

(***************************************************************************)
(* Bounds and the universe of names.                                       *)
(***************************************************************************)
MaxPred == 2
MaxGold == 2
MaxGains == 3

Types == {"A", "B", "C"}
QuestionIds == {"q1"}
Root == "owl:Thing"
Unknown == "X"
LiteralTypes == {"date", "number"}
None == "None"
Ks == {0, 1, 2, 5, 10}

Inf == 100000

NoPath == << >>

Range(s) == {s[i] : i \in 1..Len(s)}

RECURSIVE SetToSeq(_)
SetToSeq(S) ==
    IF S = {} THEN << >>
    ELSE LET x == CHOOSE y \in S : TRUE IN <<x>> \o SetToSeq(S \ {x})

SeqsUpTo(S, n) == UNION {[1..m -> S] : m \in 0..n}

Min(a, b) == IF a <= b THEN a ELSE b

(***************************************************************************)
(* The hierarchy table: every acyclic single-parent table over Types whose *)
(* depth column is the number of parent hops to the root boundary.         *)
(***************************************************************************)
RECURSIVE ParentIter(_, _, _)
ParentIter(p, t, n) ==
    IF n = 0 \/ t \notin DOMAIN p THEN t ELSE ParentIter(p, p[t], n - 1)

Acyclic(p) == \A t \in DOMAIN p : ParentIter(p, t, Cardinality(DOMAIN p)) \notin DOMAIN p

HopsToRoot(p, t) ==
    CHOOSE n \in 1..Cardinality(DOMAIN p) : ParentIter(p, t, n) \notin DOMAIN p

AllRows ==
    {[t \in Types |-> [parent |-> p[t], depth |-> HopsToRoot(p, t)]] :
        p \in {q \in [Types -> Types \cup {Root}] : Acyclic(q)}}

MaxOf(S) == CHOOSE m \in S : \A x \in S : x <= m

load_type_hierarchy(r) ==
    [types |-> [t \in DOMAIN r |->
                   [parent |-> r[t].parent, depth |-> r[t].depth, path |-> NoPath]],
     max_depth |-> MaxOf({0} \cup {r[t].depth : t \in DOMAIN r})]

(***************************************************************************)
(* get_type_path: the path is walked once and then cached in the table.    *)
(* Every operation below returns [val, th]: its value and the table after  *)
(* the call.                                                               *)
(***************************************************************************)
RECURSIVE walk_path(_, _)
walk_path(current_type, th) ==
    IF current_type \in DOMAIN th
    THEN <<current_type>> \o walk_path(th[current_type].parent, th)
    ELSE << >>

get_type_path_headless_cache(type, th) ==
    IF th[type].path = NoPath
    THEN LET type_path == walk_path(type, th)
         IN [val |-> type_path, th |-> [th EXCEPT ![type].path = Tail(type_path)]]
    ELSE [val |-> th[type].path, th |-> th]

get_type_path(type, th) ==
    IF th[type].path = NoPath
    THEN LET type_path == walk_path(type, th)
         IN [val |-> type_path, th |-> [th EXCEPT ![type].path = type_path]]
    ELSE [val |-> th[type].path, th |-> th]

IndexOf(s, x) == (CHOOSE i \in 1..Len(s) : s[i] = x /\ \A j \in 1..(i - 1) : s[j] # x) - 1

second_lookup_skipped(type2, type1_path, distance) == distance

second_lookup(type2, type1_path, distance) ==
    IF type2 \in Range(type1_path)
    THEN Min(IndexOf(type1_path, type2), distance)
    ELSE distance

get_type_distance(type1, type2, th) ==
    LET r1 == get_type_path(type1, th)
        r2 == get_type_path(type2, r1.th)
        d1 == IF type1 \in Range(r2.val) THEN IndexOf(r2.val, type1) ELSE Inf
    IN [val |-> second_lookup(type2, r1.val, d1), th |-> r2.th]

(***************************************************************************)
(* get_most_specific_types: types is the list as given (duplicates kept);  *)
(* the loop runs over the list, the removals act on the set.               *)
(***************************************************************************)
supertypes_whole_path(type_path) == type_path

supertypes(type_path) == Tail(type_path)

RECURSIVE most_specific_loop(_, _, _, _)
most_specific_loop(types, i, filtered_types, th) ==
    IF i > Len(types) THEN [val |-> filtered_types, th |-> th]
    ELSE LET r == get_type_path(types[i], th)
         IN most_specific_loop(types, i + 1,
                               filtered_types \ Range(supertypes(r.val)), r.th)

get_most_specific_types(types, th) ==
    most_specific_loop(types, 1, Range(types), th)

(***************************************************************************)
(* get_expanded_types: for each input type, its own path, then the path of *)
(* every strictly deeper type of the table whose path contains it.         *)
(***************************************************************************)
not_deeper_off_by_one(type2, type, th) == th[type2].depth <= th[type].depth + 1

not_deeper(type2, type, th) == th[type2].depth <= th[type].depth

RECURSIVE subtypes_loop(_, _, _, _, _)
subtypes_loop(type, keys, j, expanded_types, th) ==
    IF j > Len(keys) THEN [val |-> expanded_types, th |-> th]
    ELSE IF not_deeper(keys[j], type, th)
         THEN subtypes_loop(type, keys, j + 1, expanded_types, th)
         ELSE LET r == get_type_path(keys[j], th)
              IN subtypes_loop(type, keys, j + 1,
                               IF type \in Range(r.val)
                               THEN expanded_types \cup Range(r.val)
                               ELSE expanded_types,
                               r.th)

RECURSIVE expanded_loop(_, _, _, _)
expanded_loop(types, i, expanded_types, th) ==
    IF i > Len(types) THEN [val |-> expanded_types, th |-> th]
    ELSE LET r == get_type_path(types[i], th)
             s == subtypes_loop(types[i], SetToSeq(DOMAIN th), 1,
                                expanded_types \cup Range(r.val), r.th)
         IN expanded_loop(types, i + 1, s.val, s.th)

get_expanded_types(types, th) == expanded_loop(SetToSeq(types), 1, {}, th)

(***************************************************************************)
(* compute_type_gains: linear decay in the distance to the closest gold    *)
(* type, 0 outside the expansion of the gold types.                        *)
(***************************************************************************)
linear_gain(min_distance, h) == h - min_distance

RECURSIVE min_distance_loop(_, _, _, _, _)
min_distance_loop(predicted_type, golds, j, min_distance, th) ==
    IF j > Len(golds) THEN [val |-> min_distance, th |-> th]
    ELSE LET r == get_type_distance(predicted_type, golds[j], th)
         IN min_distance_loop(predicted_type, golds, j + 1,
                              Min(r.val, min_distance), r.th)

scored_in_table(predicted_type, expanded_gold_types, th) ==
    predicted_type \in DOMAIN th

scored(predicted_type, expanded_gold_types, th) ==
    predicted_type \in expanded_gold_types

RECURSIVE gains_loop(_, _, _, _, _, _, _)
gains_loop(predicted_types, i, gold_types, expanded_gold_types, gains, th, h) ==
    IF i > Len(predicted_types) THEN [val |-> gains, th |-> th]
    ELSE IF scored(predicted_types[i], expanded_gold_types, th)
         THEN LET m == min_distance_loop(predicted_types[i], SetToSeq(gold_types),
                                         1, Inf, th)
              IN gains_loop(predicted_types, i + 1, gold_types, expanded_gold_types,
                            Append(gains, linear_gain(m.val, h)), m.th, h)
         ELSE gains_loop(predicted_types, i + 1, gold_types, expanded_gold_types,
                         Append(gains, 0), th, h)

compute_type_gains(predicted_types, gold_types, th, h) ==
    LET e == get_expanded_types(gold_types, th)
    IN gains_loop(predicted_types, 1, gold_types, e.val, << >>, e.th, h)

(***************************************************************************)
(* dcg and ndcg.  Discount(i) is 1/log2(i+2) for the 0-based position i.   *)
(***************************************************************************)
DiscountTable == <<100, 63, 50, 43, 39, 36, 33, 32, 30, 29>>

Discount(i) == DiscountTable[i + 1]

RECURSIVE dcg_loop(_, _, _)
dcg_loop(gains, i, n) ==
    IF i >= n THEN 0 ELSE gains[i + 1] * Discount(i) + dcg_loop(gains, i + 1, n)

dcg(gains, k) == dcg_loop(gains, 0, Min(k, Len(gains)))

ZeroDivisionError == "ZeroDivisionError"
IndexError == "IndexError"
NoError == ""

Abs(x) == IF x < 0 THEN 0 - x ELSE x

RECURSIVE GCD(_, _)
GCD(a, b) == IF b = 0 THEN a ELSE GCD(b, a % b)

(* The float n/d for d # 0, as the fraction in lowest terms with den > 0;
   a division by zero raises. *)
Divide(n, d) ==
    IF d = 0 THEN [raised |-> ZeroDivisionError, num |-> 0, den |-> 1]
    ELSE LET g == GCD(Abs(n), Abs(d))
             sgn == IF d < 0 THEN 0 - 1 ELSE 1
         IN [raised |-> NoError, num |-> sgn * (n \div g), den |-> sgn * (d \div g)]

ndcg_default_k(gains, ideal_gains, k) == Divide(dcg(gains, k), dcg(ideal_gains, 5))

ndcg(gains, ideal_gains, k) == Divide(dcg(gains, k), dcg(ideal_gains, k))

RECURSIVE InsertDesc(_, _)
InsertDesc(x, s) ==
    IF s = << >> THEN <<x>>
    ELSE IF x >= Head(s) THEN <<x>> \o s
    ELSE <<Head(s)>> \o InsertDesc(x, Tail(s))

RECURSIVE sorted_reverse(_)
sorted_reverse(s) ==
    IF s = << >> THEN << >> ELSE InsertDesc(Head(s), sorted_reverse(Tail(s)))

(***************************************************************************)
(* The library specification: a loaded hierarchy and any sequence of calls *)
(* of the path operations and of compute_type_gains.                       *)
(***************************************************************************)
NoQuestion == [category |-> None, type |-> << >>]
NoAnswer == [present |-> FALSE, category |-> None, type |-> <<None>>]
NoReport == [accuracy |-> Divide(0, 1), ndcg_5 |-> Divide(0, 1), ndcg_10 |-> Divide(0, 1)]

Idle ==
    /\ todo = << >>
    /\ gold = NoQuestion
    /\ answer = NoAnswer
    /\ question_gains = << >>
    /\ question_ideal_gains = << >>
    /\ raised = NoError
    /\ accuracy = << >>
    /\ ndcg_5 = << >>
    /\ ndcg_10 = << >>
    /\ pc = "idle"
    /\ report = NoReport

Load ==
    /\ rows \in AllRows
    /\ type_hierarchy = load_type_hierarchy(rows).types
    /\ max_depth = load_type_hierarchy(rows).max_depth

Init ==
    /\ Load
    /\ op = "idle" /\ args = << >> /\ result = << >>
    /\ Idle

CallGetTypePath ==
    \E t \in Types :
        LET r == get_type_path(t, type_hierarchy)
        IN /\ op = "idle"
           /\ op' = "get_type_path"
           /\ args' = [type |-> t]
           /\ result' = r.val
           /\ type_hierarchy' = r.th
           /\ UNCHANGED <<rows, max_depth>>
           /\ UNCHANGED evalVars

CallGetTypeDistance ==
    \E a \in Types, b \in Types :
        LET r == get_type_distance(a, b, type_hierarchy)
        IN /\ op = "idle"
           /\ op' = "get_type_distance"
           /\ args' = [type1 |-> a, type2 |-> b]
           /\ result' = r.val
           /\ type_hierarchy' = r.th
           /\ UNCHANGED <<rows, max_depth>>
           /\ UNCHANGED evalVars

CallGetMostSpecificTypes ==
    \E ts \in SeqsUpTo(Types, MaxGold) :
        LET r == get_most_specific_types(ts, type_hierarchy)
        IN /\ op = "idle"
           /\ op' = "get_most_specific_types"
           /\ args' = [types |-> ts]
           /\ result' = r.val
           /\ type_hierarchy' = r.th
           /\ UNCHANGED <<rows, max_depth>>
           /\ UNCHANGED evalVars

CallGetExpandedTypes ==
    \E ts \in SUBSET Types :
        LET r == get_expanded_types(ts, type_hierarchy)
        IN /\ op = "idle"
           /\ op' = "get_expanded_types"
           /\ args' = [types |-> ts]
           /\ result' = r.val
           /\ type_hierarchy' = r.th
           /\ UNCHANGED <<rows, max_depth>>
           /\ UNCHANGED evalVars

CallComputeTypeGains ==
    \E ps \in SeqsUpTo(Types \cup {Unknown}, MaxPred), gs \in (SUBSET Types) \ {{}} :
        LET r == compute_type_gains(ps, gs, type_hierarchy, max_depth)
        IN /\ op = "idle"
           /\ op' = "compute_type_gains"
           /\ args' = [predicted_types |-> ps, gold_types |-> gs]
           /\ result' = r.val
           /\ type_hierarchy' = r.th
           /\ UNCHANGED <<rows, max_depth>>
           /\ UNCHANGED evalVars

(* The caller takes the result; the table keeps what the call cached. *)
Return ==
    /\ op # "idle"
    /\ op' = "idle" /\ args' = << >> /\ result' = << >>
    /\ UNCHANGED <<rows, type_hierarchy, max_depth>>
    /\ UNCHANGED evalVars

Next ==
    \/ CallGetTypePath
    \/ CallGetTypeDistance
    \/ CallGetMostSpecificTypes
    \/ CallGetExpandedTypes
    \/ CallComputeTypeGains
    \/ Return

Spec == Init /\ [][Next]_vars

(***************************************************************************)
(* The is-a order of the loaded rows, defined from the parent column alone *)
(* and independently of the cached paths: what the claims are stated over. *)
(***************************************************************************)
ParentOf == [t \in Types |-> rows[t].parent]

AncestorsOrSelf(t) == {ParentIter(ParentOf, t, n) : n \in 0..Cardinality(Types)} \cap Types

IsAncestorOrSelf(a, b) == a \in AncestorsOrSelf(b)

IsStrictAncestor(a, b) == a # b /\ IsAncestorOrSelf(a, b)

Hops(a, b) == CHOOSE n \in 0..Cardinality(Types) : ParentIter(ParentOf, b, n) = a

OnCommonPath(a, b) == IsAncestorOrSelf(a, b) \/ IsAncestorOrSelf(b, a)

Expansion(S) == {u \in Types : \E t \in S : OnCommonPath(u, t)}

Chain(t) == [i \in 1..HopsToRoot(ParentOf, t) |-> ParentIter(ParentOf, t, i - 1)]

FreshTable == load_type_hierarchy(rows).types

(* C2: every gain of compute_type_gains is in [0,1] (0..max_depth in units
   of 1/max_depth); it is 1 exactly when the predicted type is a gold type,
   and 0 for every predicted type outside the expansion of the gold types,
   names absent from the hierarchy included. *)
C2_GainsInUnitInterval ==
    op = "compute_type_gains" =>
        /\ Len(result) = Len(args.predicted_types)
        /\ \A i \in 1..Len(result) :
              /\ result[i] \in 0..max_depth
              /\ (result[i] = max_depth) <=> (args.predicted_types[i] \in args.gold_types)
              /\ args.predicted_types[i] \notin Expansion(args.gold_types) => result[i] = 0

C2_Witness ==
    /\ op = "compute_type_gains"
    /\ Cardinality(args.gold_types) = 2
    /\ \E j, k \in 1..Len(result) :
          /\ result[j] > 0 /\ result[j] < max_depth
          /\ args.predicted_types[k] = Unknown /\ result[k] = 0

(* C4: get_type_distance is symmetric; it is the number of parent hops
   between the two types when one is an ancestor-or-self of the other
   (0 when they are equal) and infinite otherwise. *)
C4_DistanceSymmetricHops ==
    op = "get_type_distance" =>
        LET a == args.type1
            b == args.type2
        IN /\ result = get_type_distance(b, a, type_hierarchy).val
           /\ IsAncestorOrSelf(a, b) => result = Hops(a, b)
           /\ IsAncestorOrSelf(b, a) => result = Hops(b, a)
           /\ a = b => result = 0
           /\ ~OnCommonPath(a, b) => result = Inf

C4_Witness ==
    /\ op = "get_type_distance"
    /\ IsStrictAncestor(args.type2, args.type1)
    /\ result = 2

(* C5: get_most_specific_types returns exactly the input types that are not
   a strict ancestor of another input type: a subset of the input, an
   antichain, and non-empty whenever the input is non-empty. *)
C5_MostSpecificIsMaximal ==
    op = "get_most_specific_types" =>
        LET input == Range(args.types)
        IN /\ result = {t \in input : ~\E u \in input : IsStrictAncestor(t, u)}
           /\ result \subseteq input
           /\ \A t \in result, u \in result : ~IsStrictAncestor(t, u)
           /\ input # {} => result # {}

C5_Witness ==
    /\ op = "get_most_specific_types"
    /\ Len(args.types) = 2
    /\ IsStrictAncestor(args.types[1], args.types[2])
    /\ result = {args.types[2]}

(* C6: get_expanded_types returns exactly the input types together with
   every ancestor and every descendant of each: nothing else. *)
C6_ExpansionIsClosure ==
    op = "get_expanded_types" =>
        /\ result = Expansion(args.types)
        /\ args.types \subseteq result
        /\ \A t \in args.types : AncestorsOrSelf(t) \subseteq result
        /\ \A u \in result : \E t \in args.types : OnCommonPath(u, t)

C6_Witness ==
    /\ op = "get_expanded_types"
    /\ Cardinality(args.types) = 1
    /\ result # Types
    /\ \E t \in args.types, v \in result : IsStrictAncestor(t, v)

(* C10: whatever calls were made, parent and depth of every node are as
   loaded, every cached path is the chain of parent links from its node, and
   the call just made returned what it returns on the freshly loaded table. *)
FreshResult ==
    CASE op = "get_type_path" -> get_type_path(args.type, FreshTable).val
      [] op = "get_type_distance" ->
            get_type_distance(args.type1, args.type2, FreshTable).val
      [] op = "get_most_specific_types" ->
            get_most_specific_types(args.types, FreshTable).val
      [] op = "get_expanded_types" -> get_expanded_types(args.types, FreshTable).val
      [] op = "compute_type_gains" ->
            compute_type_gains(args.predicted_types, args.gold_types,
                               FreshTable, max_depth).val
      [] OTHER -> result

C10_CacheIsOnlyEffect ==
    /\ DOMAIN type_hierarchy = Types
    /\ \A t \in Types :
          /\ type_hierarchy[t].parent = rows[t].parent
          /\ type_hierarchy[t].depth = rows[t].depth
          /\ type_hierarchy[t].path \in {NoPath, Chain(t)}
    /\ result = FreshResult

C10_Witness ==
    /\ op = "get_type_distance"
    /\ result = 2
    /\ \A t \in Types : type_hierarchy[t].path = Chain(t)

(***************************************************************************)
(* ndcg as a pure function: the inputs are drawn at the start, the call    *)
(* applies it.  A gain sequence is any sequence over the gain values       *)
(* 0, 1/max_depth, ..., 1; the ideal sequence is the sequence itself or    *)
(* its descending sort.                                                    *)
(***************************************************************************)
InitNdcg ==
    /\ Load
    /\ op = "input"
    /\ \E g \in SeqsUpTo(0..max_depth, MaxGains), k \in Ks, own \in BOOLEAN :
          args = [gains |-> g,
                  ideal_gains |-> IF own THEN g ELSE sorted_reverse(g),
                  k |-> k]
    /\ result = << >>
    /\ Idle

CallNdcg ==
    /\ op = "input"
    /\ op' = "ndcg"
    /\ result' = ndcg(args.gains, args.ideal_gains, args.k)
    /\ UNCHANGED <<args, rows, type_hierarchy, max_depth>>
    /\ UNCHANGED evalVars

NextNdcg == CallNdcg

SpecNdcg == InitNdcg /\ [][NextNdcg]_vars

(***************************************************************************)
(* evaluate.  One question at a time: Fetch takes the next gold record and *)
(* the system's record for its ID (or the substitute for a missing one),   *)
(* Score runs the body of the loop on it, Continue goes back to the head   *)
(* of the loop, Report computes the three means once the ground truth is   *)
(* exhausted.  The ground truth is as load_ground_truth leaves it: the     *)
(* types of a resource question are hierarchy types.                       *)
(***************************************************************************)
GoldRecords ==
    {[category |-> "resource", type |-> ts] : ts \in SeqsUpTo(Types, MaxGold)}
    \cup {[category |-> "literal", type |-> ts] : ts \in SeqsUpTo(LiteralTypes, MaxGold)}
    \cup {[category |-> "boolean", type |-> <<"boolean">>]}

SystemRecords ==
    {[present |-> TRUE, category |-> "resource", type |-> ts] :
        ts \in SeqsUpTo(Types \cup {Unknown}, MaxPred)}
    \cup {[present |-> TRUE, category |-> "literal", type |-> ts] :
            ts \in SeqsUpTo(LiteralTypes, MaxPred)}
    \cup {[present |-> TRUE, category |-> "boolean", type |-> <<"boolean">>]}

system_output_get(present, rec) == IF present THEN rec ELSE NoAnswer

category_match_reversed(predicted_category, gold_category) ==
    predicted_category = gold_category

category_mismatch(predicted_category, gold_category) ==
    predicted_category # gold_category

literal_gains(gold_type, predicted_type, h) ==
    <<IF gold_type[1] = predicted_type[1] THEN h ELSE 0>>

ideal_gains_unsorted(gold_types, th, h) ==
    LET e == get_expanded_types(gold_types, th)
    IN compute_type_gains(SetToSeq(e.val), gold_types, e.th, h)

resource_ideal_gains(gold_types, th, h) ==
    LET e == get_expanded_types(gold_types, th)
        c == compute_type_gains(SetToSeq(e.val), gold_types, e.th, h)
    IN [val |-> sorted_reverse(c.val), th |-> c.th]

Outcome(acc, g, ig, n5, n10, th, err) ==
    [accuracy |-> acc, gains |-> g, ideal_gains |-> ig,
     ndcg_5 |-> n5, ndcg_10 |-> n10, th |-> th, raised |-> err]

(* The two appends of lines 264-265; the first division by zero ends the run. *)
append_ndcg(acc, g, ig, n5, n10, th) ==
    LET r5 == ndcg(g, ig, 5)
        r10 == ndcg(g, ig, 10)
    IN IF r5.raised # NoError THEN Outcome(acc, g, ig, n5, n10, th, r5.raised)
       ELSE IF r10.raised # NoError
            THEN Outcome(acc, g, ig, Append(n5, r5), n10, th, r10.raised)
            ELSE Outcome(acc, g, ig, Append(n5, r5), Append(n10, r10), th, NoError)

evaluate_question(g, a, acc, n5, n10, th, h) ==
    IF category_mismatch(a.category, g.category)
    THEN Outcome(Append(acc, 0), << >>, << >>, n5, n10, th, NoError)
    ELSE LET acc1 == Append(acc, 1)
         IN IF g.category = "literal"
            THEN IF Len(g.type) = 0 \/ Len(a.type) = 0
                 THEN Outcome(acc1, << >>, << >>, n5, n10, th, IndexError)
                 ELSE append_ndcg(acc1, literal_gains(g.type, a.type, h), <<h>>,
                                  n5, n10, th)
            ELSE IF g.category = "resource"
            THEN IF Len(g.type) = 0
                 THEN Outcome(acc1, << >>, << >>, n5, n10, th, NoError)
                 ELSE LET m == get_most_specific_types(g.type, th)
                          c == compute_type_gains(a.type, m.val, m.th, h)
                          i == resource_ideal_gains(m.val, c.th, h)
                      IN append_ndcg(acc1, c.val, i.val, n5, n10, i.th)
            ELSE Outcome(acc1, << >>, << >>, n5, n10, th, NoError)

RECURSIVE SumInts(_)
SumInts(s) == IF s = << >> THEN 0 ELSE Head(s) + SumInts(Tail(s))

RECURSIVE SumRatios(_)
SumRatios(s) ==
    IF s = << >> THEN Divide(0, 1)
    ELSE LET t == SumRatios(Tail(s))
         IN Divide(Head(s).num * t.den + t.num * Head(s).den, Head(s).den * t.den)

mean_accuracy(acc) == Divide(SumInts(acc), Len(acc))

mean_ndcg(s) == LET t == SumRatios(s) IN Divide(t.num, t.den * Len(s))

InitEval ==
    /\ Load
    /\ op = "evaluate" /\ args = << >> /\ result = << >>
    /\ todo \in {SetToSeq(ids) : ids \in SUBSET QuestionIds}
    /\ gold = NoQuestion
    /\ answer = NoAnswer
    /\ question_gains = << >>
    /\ question_ideal_gains = << >>
    /\ raised = NoError
    /\ accuracy = << >>
    /\ ndcg_5 = << >>
    /\ ndcg_10 = << >>
    /\ pc = "loop"
    /\ report = NoReport

Fetch ==
    /\ pc = "loop"
    /\ todo # << >>
    /\ todo' = Tail(todo)
    /\ gold' \in GoldRecords
    /\ \E present \in BOOLEAN, rec \in SystemRecords :
          answer' = system_output_get(present, rec)
    /\ pc' = "score"
    /\ UNCHANGED <<type_hierarchy, question_gains, question_ideal_gains,
                   accuracy, ndcg_5, ndcg_10, raised, report>>
    /\ UNCHANGED libVars

Score ==
    /\ pc = "score"
    /\ LET o == evaluate_question(gold, answer, accuracy, ndcg_5, ndcg_10,
                                  type_hierarchy, max_depth)
       IN /\ accuracy' = o.accuracy
          /\ question_gains' = o.gains
          /\ question_ideal_gains' = o.ideal_gains
          /\ ndcg_5' = o.ndcg_5
          /\ ndcg_10' = o.ndcg_10
          /\ type_hierarchy' = o.th
          /\ raised' = o.raised
          /\ pc' = IF o.raised = NoError THEN "scored" ELSE "error"
    /\ UNCHANGED <<todo, gold, answer, report>>
    /\ UNCHANGED libVars

Continue ==
    /\ pc = "scored"
    /\ pc' = "loop"
    /\ gold' = NoQuestion
    /\ answer' = NoAnswer
    /\ question_gains' = << >>
    /\ question_ideal_gains' = << >>
    /\ UNCHANGED <<todo, type_hierarchy, accuracy, ndcg_5, ndcg_10, raised, report>>
    /\ UNCHANGED libVars

Report ==
    /\ pc = "loop"
    /\ todo = << >>
    /\ LET a == mean_accuracy(accuracy)
           m5 == mean_ndcg(ndcg_5)
           m10 == mean_ndcg(ndcg_10)
           err == IF a.raised # NoError THEN a.raised
                  ELSE IF m5.raised # NoError THEN m5.raised ELSE m10.raised
       IN /\ report' = [accuracy |-> a, ndcg_5 |-> m5, ndcg_10 |-> m10]
          /\ raised' = err
          /\ pc' = IF err = NoError THEN "done" ELSE "error"
    /\ UNCHANGED <<todo, type_hierarchy, gold, answer, question_gains,
                   question_ideal_gains, accuracy, ndcg_5, ndcg_10>>
    /\ UNCHANGED libVars

NextEval ==
    \/ Fetch
    \/ Score
    \/ Continue
    \/ Report

SpecEval == InitEval /\ [][NextEval]_vars

(***************************************************************************)
(* Claims about ndcg and evaluate.                                         *)
(***************************************************************************)
One == Divide(1, 1)
Zero == Divide(0, 1)

InUnitInterval(r) == r.raised = NoError /\ 0 <= r.num /\ r.num <= r.den

IsSortedDescending(s) == \A i \in 1..(Len(s) - 1) : s[i] >= s[i + 1]

MatchedResourceQuestion ==
    /\ gold.category = "resource"
    /\ answer.category = "resource"
    /\ gold.type # << >>

(* C1: the three aggregates reported by evaluate (category accuracy, mean
   NDCG@5, mean NDCG@10) each lie in [0,1], whatever the gold records and
   the predicted type lists are. *)
C1_AggregatesInUnitInterval ==
    pc = "done" =>
        /\ InUnitInterval(report.accuracy)
        /\ InUnitInterval(report.ndcg_5)
        /\ InUnitInterval(report.ndcg_10)

(* C3: for a category-matched resource question with a non-empty gold type
   list, the ideal gains start with 1 and their DCG at k=5 and k=10 is
   strictly positive, so ndcg does not divide by zero, whatever the
   predicted type list is. *)
C3_IdealDcgPositive ==
    (pc \in {"scored", "error"} /\ MatchedResourceQuestion) =>
        /\ question_ideal_gains # << >>
        /\ question_ideal_gains[1] = max_depth
        /\ dcg(question_ideal_gains, 5) > 0
        /\ dcg(question_ideal_gains, 10) > 0
        /\ raised = NoError
        /\ pc = "scored"

C3_Witness ==
    /\ pc = "scored"
    /\ MatchedResourceQuestion
    /\ Len(question_ideal_gains) = 3
    /\ question_ideal_gains[3] < max_depth
    /\ \E i \in 1..Len(answer.type) : answer.type[i] = Unknown
    /\ ndcg_5 = <<Zero>>

(* C7: a question whose predicted category differs from the gold category,
   a question without a record in the system output included, appends
   exactly one 0 to accuracy and nothing to the NDCG@5 and NDCG@10 lists,
   whatever the two type lists are. *)
C7_MismatchScoresZero ==
    [][(pc = "score" /\ (answer.category # gold.category \/ ~answer.present)) =>
          /\ accuracy' = Append(accuracy, 0)
          /\ ndcg_5' = ndcg_5
          /\ ndcg_10' = ndcg_10
          /\ pc' = "scored"]_vars

C7_Witness ==
    /\ pc = "scored"
    /\ ~answer.present
    /\ gold.category = "resource" /\ Len(gold.type) = 2
    /\ accuracy = <<0>>
    /\ ndcg_5 = << >> /\ ndcg_10 = << >>

(* C8 as stated: for every gain sequence g sorted in descending order and
   every k, ndcg(g, g, k) equals 1.0. *)
C8_SelfNdcgIsOne ==
    (op = "ndcg" /\ args.ideal_gains = args.gains /\ IsSortedDescending(args.gains)) =>
        result = One

(* C8 amended: for every gain sequence g sorted in descending order and
   every k, ndcg(g, g, k) equals 1.0 when g is non-empty, its first gain is
   positive and k >= 1; otherwise dcg(g, k) is 0 and ndcg raises
   ZeroDivisionError. *)
C8_SelfNdcgIsOneWhenDcgPositive ==
    (op = "ndcg" /\ args.ideal_gains = args.gains /\ IsSortedDescending(args.gains)) =>
        IF args.gains # << >> /\ args.gains[1] > 0 /\ args.k >= 1
        THEN result = One
        ELSE result.raised = ZeroDivisionError

C8_Witness ==
    /\ op = "ndcg"
    /\ args.ideal_gains = args.gains
    /\ IsSortedDescending(args.gains)
    /\ Len(args.gains) = 3
    /\ args.gains[1] > args.gains[2] /\ args.gains[3] > 0
    /\ args.k = 2
    /\ result = One

(* C9: a literal question whose predicted category is literal appends 1 to
   accuracy and one value to each of the NDCG@5 and NDCG@10 lists: 1 when the
   first predicted type equals the first gold type, 0 otherwise. *)
C9_LiteralFirstTypeOnly ==
    [][(pc = "score" /\ gold.category = "literal" /\ answer.category = "literal") =>
          /\ accuracy' = Append(accuracy, 1)
          /\ Len(ndcg_5') = Len(ndcg_5) + 1
          /\ Len(ndcg_10') = Len(ndcg_10) + 1
          /\ gold.type # << >> /\ answer.type # << >>
          /\ LET v == IF answer.type[1] = gold.type[1] THEN One ELSE Zero
             IN ndcg_5' = Append(ndcg_5, v) /\ ndcg_10' = Append(ndcg_10, v)]_vars

====
